---- MODULE Spec2Model ----
(***************************************************************************)
(* Model of the iCode terminal relay.                                      *)
(*                                                                         *)
(* The persistent-session PTY manager (src/unnamed/part_002) keeps a       *)
(* process-wide map cwd -> Session; every WebSocket connection runs        *)
(* handleConnection, whose closures (detach, attach, selectProject) and    *)
(* event handlers are the operations below.  JavaScript runs every         *)
(* handler to completion; the only suspension point of the module is the   *)
(* `await isDirectory(cwd)` of selectProject, so a select is two steps:    *)
(* the message handler up to the await, and the continuation after it.     *)
(***************************************************************************)
EXTENDS Integers, Sequences, FiniteSets, TLC

VARIABLES
    sessions,        \* part_002:42   Map cwd -> Session (0 = no entry)
    sess,            \* every Session object ever created, by pid, with its pty
    ws,              \* per connection: readyState of the transport
    currentSession,  \* part_002:97   per connection (0 = null)
    disposables,     \* part_002:98   per connection
    pending,         \* per connection: selectProject calls awaiting isDirectory
    recv,            \* per connection: the frames ws.send has delivered
    att,             \* per connection: what the last attach() saw (history)
    nsel,            \* per connection: select frames received so far (history)
    last,            \* the last frame a message handler was run for (history)
    steps,           \* handlers run so far (bounds a run)
    \* one connection of the per-connection PTY manager (src/unnamed/part_001)
    activePty,       \* part_001:46   (0 = null)
    activeId,        \* part_001:47
    ptys,            \* every process pty.spawn has returned, with its listeners' id
    ws1,             \* readyState of the transport
    pending1,        \* startSession calls awaiting isDirectory
    recv1,           \* the frames ws.send has delivered
    \* the recent-projects list of the HTTP server (src/unnamed/part_000)
    file,            \* part_000:18   the contents of PROJECTS_FILE
    reqs             \* the calls that modify the list, by slot, with their progress

vars2 == <<sessions, sess, ws, currentSession, disposables, pending, recv, att,
           nsel, last>>
vars1 == <<activePty, activeId, ptys, ws1, pending1, recv1>>
vars0 == <<file, reqs>>
vars == <<vars2, vars1, vars0, steps>>

----------------------------------------------------------------------------
(* Bounds of the model *)

NumConns == 2      \* connections
MaxSteps == 10     \* handlers (events) in one run
MaxChunk == 4      \* bytes of one data event
MaxWrites == 2     \* input frames written to one process
MaxFrameSteps == 7 \* handlers (events) in one run of frames
MaxRelaySteps == 10 \* handlers (events) in one run of two writing processes
MaxBothSteps == 11 \* handlers (events) in one run of both managers
MaxRequests == 2   \* calls that modify the projects list at one time
MaxProjectSteps == 11 \* steps of such calls in one run

(* part_002:32 is 64 * 1024; the trim logic depends only on the ratio of the *)
(* buffer length to this ceiling, so the model runs it with a small ceiling. *)
REPLAY_BUFFER_SIZE == 2

Conns == 1 .. NumConns
Dirs == {"a", "b"}
NotDirs == {"x"}
Paths == Dirs \cup NotDirs
ExitCodes == {0, 1}

----------------------------------------------------------------------------
(* Helpers on sequences *)

RECURSIVE RemoveFirst(_, _)
RemoveFirst(s, x) ==
    IF s = <<>> THEN <<>>
    ELSE IF Head(s) = x THEN Tail(s)
    ELSE <<Head(s)>> \o RemoveFirst(Tail(s), x)

\* String.prototype.slice(-n): the last n characters (all of them if shorter)
SliceLast(s, n) ==
    IF Len(s) <= n THEN s ELSE SubSeq(s, Len(s) - n + 1, Len(s))

\* The bytes a process writes are numbered, so that every byte is distinct:
\* byte k of the process with pid p.
Byte(p, k) == p * 100 + k
Bytes(p, from, to) == [i \in 1 .. (to - from + 1) |-> Byte(p, from + i - 1)]

Frame(type, cwd, num, data) == [type |-> type, cwd |-> cwd, num |-> num, data |-> data]
Raw(data) == Frame("raw", "", 0, data)

----------------------------------------------------------------------------
(* The state as one record, so that a handler is a composition of the     *)
(* functions it calls.                                                     *)

World ==
    [sessions |-> sessions, sess |-> sess, ws |-> ws,
     currentSession |-> currentSession, disposables |-> disposables,
     pending |-> pending, recv |-> recv, att |-> att, nsel |-> nsel,
     last |-> last]

Commit(w) ==
    /\ sessions' = w.sessions
    /\ sess' = w.sess
    /\ ws' = w.ws
    /\ currentSession' = w.currentSession
    /\ disposables' = w.disposables
    /\ pending' = w.pending
    /\ recv' = w.recv
    /\ att' = w.att
    /\ nsel' = w.nsel
    /\ last' = w.last
    /\ UNCHANGED <<vars1, vars0>>

\* ws.send(frame) behind its readyState test (part_002:45-47, 112-114, 135-137)
wsSend(w, c, frame) ==
    IF w.ws[c] = "open"
    THEN [w EXCEPT !.recv[c] = Append(@, frame)]
    ELSE w

sendControl(w, c, msg) == wsSend(w, c, msg)

\* Faulty variant: the path is not validated
isDirectoryAlways(path) == TRUE

\* part_002:50-57
isDirectory(path) == path \in Dirs

----------------------------------------------------------------------------
(* Sessions (part_002:34-94).  A Session is identified by the pid of its   *)
(* process: sess[pid].  onData and onExit are the listener lists of the    *)
(* pty's event emitters in registration order; listener 0 is the one       *)
(* spawnSession registers, listener c > 0 belongs to connection c.  exit   *)
(* is the state of the process: Running, or its exit code.  total counts   *)
(* the bytes the process has written since it was spawned (history).  cols *)
(* and rows are the size of the pty, written the strings pty.write got.    *)

Running == -1
None == 0
OwnListener == 0

NoAttach == [sid |-> None, mark |-> 0, replay |-> <<>>, pubAt |-> 0]
NoFrame == [c |-> 0, msg |-> <<>>]

\* Faulty variant: the trim empties the buffer instead of keeping its tail
TrimKeepsNothing(buffer) ==
    IF 2 * Len(buffer) > 3 * REPLAY_BUFFER_SIZE THEN <<>> ELSE buffer

\* part_002:82-84
Trim(buffer) ==
    IF 2 * Len(buffer) > 3 * REPLAY_BUFFER_SIZE
    THEN SliceLast(buffer, REPLAY_BUFFER_SIZE)
    ELSE buffer

\* part_002:79-85, the onData listener of spawnSession
bufferOutput(w, s, data) ==
    [w EXCEPT !.sess[s].buffer = Trim(@ \o data)]

\* Faulty variant: the exit handler leaves the entry in the registry
sessionExitedKeepsEntry(w, s) ==
    [w EXCEPT !.sess[s].alive = FALSE]

\* part_002:87-90, the onExit listener of spawnSession
sessionExited(w, s) ==
    [w EXCEPT !.sess[s].alive = FALSE,
              !.sessions[w.sess[s].cwd] = None]

\* Faulty variant: the new session is not stored in the registry
spawnSessionUnregistered(w, cwd) ==
    LET session == [cwd |-> cwd, buffer |-> <<>>, alive |-> TRUE,
                    onData |-> <<OwnListener>>, onExit |-> <<OwnListener>>,
                    exit |-> Running, total |-> 0,
                    cols |-> 80, rows |-> 24, written |-> <<>>]
    IN [w EXCEPT !.sess = Append(@, session)]

\* part_002:59-94
spawnSession(w, cwd) ==
    LET pid == Len(w.sess) + 1
        session == [cwd |-> cwd, buffer |-> <<>>, alive |-> TRUE,
                    onData |-> <<OwnListener>>, onExit |-> <<OwnListener>>,
                    exit |-> Running, total |-> 0,
                    cols |-> 80, rows |-> 24, written |-> <<>>]
    IN [w EXCEPT !.sess = Append(@, session),
                 !.sessions[cwd] = pid]

----------------------------------------------------------------------------
(* The closures of handleConnection (part_002:96-153) *)

\* IDisposable.dispose() of one listener registration
dispose(w, c, d) ==
    IF d.kind = "data"
    THEN [w EXCEPT !.sess[d.sid].onData = RemoveFirst(@, c)]
    ELSE [w EXCEPT !.sess[d.sid].onExit = RemoveFirst(@, c)]

RECURSIVE disposeAll(_, _, _)
disposeAll(w, c, ds) ==
    IF ds = <<>> THEN w
    ELSE disposeAll(dispose(w, c, Head(ds)), c, Tail(ds))

\* Faulty variant: detaching drops the session of the connection from the registry
detachForgetsSession(w, c) ==
    LET s == w.currentSession[c]
        w1 == [disposeAll(w, c, w.disposables[c])
                 EXCEPT !.disposables[c] = <<>>,
                        !.currentSession[c] = None]
    IN IF s = None THEN w1 ELSE [w1 EXCEPT !.sessions[w.sess[s].cwd] = None]

\* Faulty variant: detaching leaves the listeners registered on the pty
detachKeepsListeners(w, c) ==
    [w EXCEPT !.disposables[c] = <<>>,
              !.currentSession[c] = None]

\* part_002:100-104
detach(w, c) ==
    [disposeAll(w, c, w.disposables[c])
        EXCEPT !.disposables[c] = <<>>,
               !.currentSession[c] = None]

\* part_002:111-115, the onData listener attach registers
forwardOutput(w, c, data) == wsSend(w, c, Raw(data))

\* Faulty variant: the exit listener keeps the reference to the dead session
notifyExitKeepsSession(w, c, s, exitCode) ==
    sendControl(w, c, Frame("exited", w.sess[s].cwd, exitCode, <<>>))

\* part_002:118-121, the onExit listener attach registers
notifyExit(w, c, s, exitCode) ==
    [sendControl(w, c, Frame("exited", w.sess[s].cwd, exitCode, <<>>))
        EXCEPT !.currentSession[c] = None]

\* Faulty variant: attach does not detach from the previous session first
attachKeepsListeners(w, c, s) ==
    [w EXCEPT
       !.currentSession[c] = s,
       !.sess[s].onData = Append(@, c),
       !.sess[s].onExit = Append(@, c),
       !.disposables[c] = @ \o <<[kind |-> "data", sid |-> s],
                                  [kind |-> "exit", sid |-> s]>>,
       !.att[c] = [sid |-> s, mark |-> Len(w.recv[c]),
                   replay |-> w.sess[s].buffer,
                   pubAt |-> w.sess[s].total]]

\* part_002:106-122
attach(w, c, s) ==
    LET w1 == detach(w, c)
    IN [w1 EXCEPT
          !.currentSession[c] = s,
          !.sess[s].onData = Append(@, c),
          !.sess[s].onExit = Append(@, c),
          !.disposables[c] = <<[kind |-> "data", sid |-> s],
                               [kind |-> "exit", sid |-> s]>>,
          !.att[c] = [sid |-> s, mark |-> Len(w1.recv[c]),
                      replay |-> w1.sess[s].buffer,
                      pubAt |-> w1.sess[s].total]]

\* Faulty variant: nothing is replayed
replayNothing(w, c, s) == w

\* part_002:134-137
replay(w, c, s) ==
    IF w.sess[s].buffer # <<>>
    THEN wsSend(w, c, Raw(w.sess[s].buffer))
    ELSE w

\* Faulty variant: a select of a directory spawns even if its session is live
selectProjectResumeRespawns(w, c, cwd, spawnOk) ==
    IF ~isDirectory(cwd)
    THEN sendControl(w, c, Frame("error", cwd, 0, <<>>))
    ELSE LET w1 == spawnSession(w, cwd)
             session == Len(w1.sess)
         IN sendControl(attach(w1, c, session),
                        c, Frame("spawned", cwd, session, <<>>))

\* part_002:124-153 after `await isDirectory(cwd)` has resolved; spawnOk is
\* whether pty.spawn returns (TRUE) or throws (FALSE) if it is reached.
selectProjectResume(w, c, cwd, spawnOk) ==
    IF ~isDirectory(cwd)
    THEN sendControl(w, c, Frame("error", cwd, 0, <<>>))
    ELSE LET existing == w.sessions[cwd]
         IN IF existing # None /\ w.sess[existing].alive
            THEN sendControl(replay(attach(w, c, existing), c, existing),
                             c, Frame("attached", cwd, existing, <<>>))
            ELSE IF ~spawnOk
            THEN sendControl(w, c, Frame("error", cwd, 1, <<>>))
            ELSE LET w1 == spawnSession(w, cwd)
                     session == Len(w1.sess)
                 IN sendControl(attach(w1, c, session),
                                c, Frame("spawned", cwd, session, <<>>))

\* Does the continuation reach pty.spawn?
reachesSpawn(w, cwd) ==
    /\ isDirectory(cwd)
    /\ ~(w.sessions[cwd] # None /\ w.sess[w.sessions[cwd]].alive)

----------------------------------------------------------------------------
(* The message handler (part_002:158-196).  A frame is the sequence of its *)
(* characters: msg[0] is its first element, msg.slice(1) the rest.  The    *)
(* payload of a select frame is a JSON text, modelled as the sequence of   *)
(* its tokens.                                                             *)

ESC == "ESC"                      \* the character \x1b
Digits == <<"0", "1", "2", "3", "4", "5", "6", "7", "8", "9">>
IsDigit(ch) == \E i \in 1 .. 10 : Digits[i] = ch
DigitValue(ch) == (CHOOSE i \in 1 .. 10 : Digits[i] = ch) - 1

RECURSIVE DecimalValue(_)
DecimalValue(ds) ==
    IF ds = <<>> THEN 0
    ELSE 10 * DecimalValue(SubSeq(ds, 1, Len(ds) - 1)) + DigitValue(ds[Len(ds)])

\* Faulty variant: the focus reports are not stripped
stripFocusNothing(str) == str

\* String.prototype.replace(/\x1b\[[IO]/g, ""): one scan from the left, every
\* match removed, the scan resuming after the match
RECURSIVE stripFocus(_)
stripFocus(str) ==
    IF str = <<>> THEN <<>>
    ELSE IF Len(str) >= 3 /\ str[1] = ESC /\ str[2] = "[" /\ str[3] \in {"I", "O"}
    THEN stripFocus(SubSeq(str, 4, Len(str)))
    ELSE <<str[1]>> \o stripFocus(Tail(str))

\* String.prototype.split(",")
RECURSIVE split(_)
split(str) ==
    IF \A i \in DOMAIN str : str[i] # ","
    THEN <<str>>
    ELSE LET i == CHOOSE j \in DOMAIN str :
                     str[j] = "," /\ \A k \in 1 .. j - 1 : str[k] # ","
         IN <<SubSeq(str, 1, i - 1)>> \o split(SubSeq(str, i + 1, Len(str)))

\* parts[i] of a JavaScript array: undefined past its end; parseInt reads
\* undefined as the string "undefined"
Undefined == <<"u", "n", "d", "e", "f", "i", "n", "e", "d">>
At(parts, i) == IF i + 1 <= Len(parts) THEN parts[i + 1] ELSE Undefined

NaN == [nan |-> TRUE, val |-> 0]
Number(n) == [nan |-> FALSE, val |-> n]
\* the JavaScript comparison x > 0, false for NaN
Positive(x) == ~x.nan /\ x.val > 0

RECURSIVE TrimStart(_)
TrimStart(str) ==
    IF str # <<>> /\ str[1] = " " THEN TrimStart(Tail(str)) ELSE str

RECURSIVE DigitPrefix(_)
DigitPrefix(str) ==
    IF str # <<>> /\ IsDigit(str[1])
    THEN <<str[1]>> \o DigitPrefix(Tail(str))
    ELSE <<>>

\* Faulty variant: the string is a number only if all of it is decimal digits
parseIntStrict(str) ==
    IF str # <<>> /\ \A i \in DOMAIN str : IsDigit(str[i])
    THEN Number(DecimalValue(str))
    ELSE NaN

\* parseInt(str, 10): leading white space is skipped, a sign is read, then
\* the longest prefix of decimal digits; what follows the digits is ignored,
\* and the result is NaN if there is no digit
parseInt(str) ==
    LET t == TrimStart(str)
        signed == t # <<>> /\ t[1] \in {"+", "-"}
        ds == DigitPrefix(IF signed THEN Tail(t) ELSE t)
    IN IF ds = <<>> THEN NaN
       ELSE IF signed /\ t[1] = "-" THEN Number(0 - DecimalValue(ds))
       ELSE Number(DecimalValue(ds))

\* JSON.parse of the texts the model sends, then the destructuring
\* `const { cwd } = ...`: kind "error" is a SyntaxError, has tells whether the
\* parsed object has a cwd property
JSONparse(text) ==
    IF text = <<"{", "}">>
    THEN [kind |-> "object", has |-> FALSE, cwd |-> ""]
    ELSE IF /\ Len(text) = 5
            /\ text[1] = "{" /\ text[2] = "cwd" /\ text[3] = ":" /\ text[5] = "}"
            /\ text[4] \in Paths \cup {""}
    THEN [kind |-> "object", has |-> TRUE, cwd |-> text[4]]
    ELSE IF text = <<"null">>
    THEN [kind |-> "null", has |-> FALSE, cwd |-> ""]
    ELSE IF Len(text) = 1 /\ IsDigit(text[1])
    THEN [kind |-> "number", has |-> FALSE, cwd |-> ""]
    ELSE [kind |-> "error", has |-> FALSE, cwd |-> ""]

\* part_002:166-173, case "0"
handleInput(w, c, payload) ==
    LET s == w.currentSession[c]
    IN IF s # None /\ w.sess[s].alive
       THEN LET filtered == stripFocus(payload)
            IN IF filtered # <<>>
               THEN [w EXCEPT !.sess[s].written = Append(@, filtered)]
               ELSE w
       ELSE w

\* part_002:175-183, case "1"
handleResize(w, c, payload) ==
    LET parts == split(payload)
        cols == parseInt(At(parts, 0))
        rows == parseInt(At(parts, 1))
        s == w.currentSession[c]
    IN IF s # None /\ w.sess[s].alive /\ Positive(cols) /\ Positive(rows)
       THEN [w EXCEPT !.sess[s].cols = cols.val, !.sess[s].rows = rows.val]
       ELSE w

\* part_002:185-194, case "2", up to the await of selectProject; a
\* SyntaxError of JSON.parse and the TypeError of destructuring null are caught
handleSelect(w, c, payload) ==
    LET v == JSONparse(payload)
    IN IF v.kind = "object" /\ v.has /\ v.cwd # ""
       THEN [detach(w, c) EXCEPT !.pending[c][v.cwd] = @ + 1,
                                 !.nsel[c] = @ + 1]
       ELSE w

\* Faulty variant: a frame with an unknown tag is taken for terminal input
onMessageDefaultInput(w, c, msg) ==
    IF Len(msg) = 0 THEN w
    ELSE IF Head(msg) = "1" THEN handleResize(w, c, Tail(msg))
    ELSE IF Head(msg) = "2" THEN handleSelect(w, c, Tail(msg))
    ELSE handleInput(w, c, Tail(msg))

\* part_002:158-196
onMessage(w, c, msg) ==
    IF Len(msg) = 0 THEN w
    ELSE LET prefix == Head(msg)
             payload == Tail(msg)
         IN IF prefix = "0" THEN handleInput(w, c, payload)
            ELSE IF prefix = "1" THEN handleResize(w, c, payload)
            ELSE IF prefix = "2" THEN handleSelect(w, c, payload)
            ELSE w

----------------------------------------------------------------------------
(* Event emission of the pty: every listener registered when the event     *)
(* fires is called, in registration order.                                 *)

\* Faulty variant: only the observer that attached first gets the output
fireDataFirstObserver(w, s, listeners, data) ==
    LET w1 == bufferOutput(w, s, data)
    IN IF Len(listeners) > 1 THEN forwardOutput(w1, listeners[2], data) ELSE w1

RECURSIVE fireData(_, _, _, _)
fireData(w, s, listeners, data) ==
    IF listeners = <<>> THEN w
    ELSE LET l == Head(listeners)
             w1 == IF l = OwnListener THEN bufferOutput(w, s, data)
                   ELSE forwardOutput(w, l, data)
         IN fireData(w1, s, Tail(listeners), data)

RECURSIVE fireExit(_, _, _, _)
fireExit(w, s, listeners, exitCode) ==
    IF listeners = <<>> THEN w
    ELSE LET l == Head(listeners)
             w1 == IF l = OwnListener THEN sessionExited(w, s)
                   ELSE notifyExit(w, l, s, exitCode)
         IN fireExit(w1, s, Tail(listeners), exitCode)

----------------------------------------------------------------------------
(* The recent-projects list (src/unnamed/part_000:18-96).  The list lives  *)
(* in a file; addProject and the DELETE handler load it, change the copy   *)
(* they loaded and save the copy.  Both await the read and the write, so   *)
(* a call is three steps: it starts, its read completes, its write         *)
(* completes; the calls of overlapping requests interleave at the awaits.  *)
(* A write replaces the whole file at once.                                *)

(* part_000:48 keeps 20 entries; the logic depends only on the length of  *)
(* the list against this number, so the model runs it with a small one.   *)
KeepAtMost == 3

ProjectPaths == {"p", "q", "r", "s"}
CWD == "p"
Slots == 1 .. MaxRequests

NoFile == [exists |-> FALSE, projects |-> <<>>]

\* part_000:27-34: a missing file reads as the empty list; the file holds
\* JSON.stringify of an array of strings, which JSON.parse gives back
loadProjects(f) == IF f.exists THEN f.projects ELSE <<>>

\* part_000:36-40
saveProjects(projects) == [exists |-> TRUE, projects |-> projects]

\* Array.prototype.filter((p) => p !== cwd)
without(projects, cwd) == SelectSeq(projects, LAMBDA p : p # cwd)

\* Array.prototype.slice(0, n)
sliceFirst(list, n) == IF Len(list) <= n THEN list ELSE SubSeq(list, 1, n)

\* Faulty variant: the path is prepended without being removed first
addedNoFilter(projects, cwd) == sliceFirst(<<cwd>> \o projects, KeepAtMost)

\* part_000:45-48: the list addProject saves
added(projects, cwd) == sliceFirst(<<cwd>> \o without(projects, cwd), KeepAtMost)

\* part_000:88: the list the DELETE handler saves
removed(projects, cwd) == without(projects, cwd)

Free == [op |-> "none", cwd |-> "", phase |-> "free", projects |-> <<>>,
         overlap |-> {}]

\* a call that has just started; overlap is the set of slots whose call was
\* in progress at some moment of this one (history)
Request(op, cwd, others) ==
    [op |-> op, cwd |-> cwd, phase |-> "load", projects |-> <<>>,
     overlap |-> others]

InProgress(i) == reqs[i].phase \in {"load", "save"}

\* part_000:42-43, 52, 65-71, 81-87: addProject(cwd) is called (at startup or
\* by a POST), or a DELETE for cwd arrives; the call runs until it awaits
\* readFile
StartRequest(i, op, cwd) ==
    /\ ~InProgress(i)
    /\ reqs' = [j \in Slots |->
                  IF j = i
                  THEN Request(op, cwd, {k \in Slots : k # i /\ InProgress(k)})
                  ELSE IF InProgress(j)
                  THEN [reqs[j] EXCEPT !.overlap = @ \cup {i}]
                  ELSE [reqs[j] EXCEPT !.overlap = @ \ {i}]]
    /\ UNCHANGED <<file, vars1, vars2>>

\* part_000:29-30, 43, 87: readFile completes with what the file holds now
Load(i) ==
    /\ reqs[i].phase = "load"
    /\ reqs' = [reqs EXCEPT ![i].phase = "save",
                            ![i].projects = loadProjects(file)]
    /\ UNCHANGED <<file, vars1, vars2>>

\* part_000:38-39, 45-48, 88: writeFile completes with the changed copy, and
\* the call returns
Save(i) ==
    /\ reqs[i].phase = "save"
    /\ file' = saveProjects(IF reqs[i].op = "add"
                            THEN added(reqs[i].projects, reqs[i].cwd)
                            ELSE removed(reqs[i].projects, reqs[i].cwd))
    /\ reqs' = [reqs EXCEPT ![i].phase = "done"]
    /\ UNCHANGED <<vars1, vars2>>

----------------------------------------------------------------------------
(* Initial state and actions *)

Init ==
    /\ sessions = [p \in Paths |-> None]
    /\ sess = <<>>
    /\ ws = [c \in Conns |-> "new"]
    /\ currentSession = [c \in Conns |-> None]
    /\ disposables = [c \in Conns |-> <<>>]
    /\ pending = [c \in Conns |-> [p \in Paths |-> 0]]
    /\ recv = [c \in Conns |-> <<>>]
    /\ att = [c \in Conns |-> NoAttach]
    /\ nsel = [c \in Conns |-> 0]
    /\ last = NoFrame
    /\ steps = 0
    /\ activePty = None
    /\ activeId = 0
    /\ ptys = <<>>
    /\ ws1 = "new"
    /\ pending1 = [p \in Paths |-> 0]
    /\ recv1 = <<>>
    /\ file = NoFile
    /\ reqs = [i \in Slots |-> IF i = 1 THEN Request("add", CWD, {}) ELSE Free]

\* Faulty variant: handleConnection does not announce itself
AcceptSilently(c) ==
    /\ ws[c] = "new"
    /\ Commit([World EXCEPT !.ws[c] = "open"])

\* part_002:96-98, 156: the transport is accepted, handleConnection runs
Accept(c) ==
    /\ ws[c] = "new"
    /\ Commit(sendControl([World EXCEPT !.ws[c] = "open"], c,
                          Frame("ready", "", 0, <<>>)))

\* part_002:158-165, 185-194: a select frame {"cwd": cwd} with a non-empty
\* cwd arrives; the handler runs until selectProject awaits isDirectory
RecvSelect(c, cwd) ==
    /\ ws[c] = "open"
    /\ Commit([detach(World, c) EXCEPT !.pending[c][cwd] = @ + 1,
                                       !.nsel[c] = @ + 1])

\* part_002:125-153: isDirectory has resolved, selectProject runs to its end
SelectResume(c, cwd, spawnOk) ==
    /\ pending[c][cwd] > 0
    /\ Commit(selectProjectResume(
                [World EXCEPT !.pending[c][cwd] = @ - 1], c, cwd, spawnOk))

\* The process of session s writes n bytes: its data event fires
Publish(s, n) ==
    /\ sess[s].exit = Running
    /\ LET data == Bytes(s, sess[s].total + 1, sess[s].total + n)
           w == [World EXCEPT !.sess[s].total = @ + n]
       IN Commit(fireData(w, s, w.sess[s].onData, data))

\* The process of session s exits with exitCode: its exit event fires once
Exit(s, exitCode) ==
    /\ sess[s].exit = Running
    /\ LET w == [World EXCEPT !.sess[s].exit = exitCode]
       IN Commit(fireExit(w, s, w.sess[s].onExit, exitCode))

\* part_002:158-196: a frame arrives on an open connection
Message(c, msg) ==
    /\ ws[c] = "open"
    /\ Commit([onMessage(World, c, msg) EXCEPT !.last = [c |-> c, msg |-> msg]])

\* part_002:198-201: the transport closes
Close(c) ==
    /\ ws[c] = "open"
    /\ Commit(detach([World EXCEPT !.ws[c] = "closed"], c))

----------------------------------------------------------------------------
(* The per-connection PTY manager (src/unnamed/part_001): handleConnection *)
(* of one connection, which owns the processes it spawns.  ptys[p] is the  *)
(* process with pid p: id is the session id its listeners captured, exit   *)
(* its state (Running or the exit code), signals the number of times kill  *)
(* has signalled it, total the bytes it has written (history).             *)

One ==
    [activePty |-> activePty, activeId |-> activeId, ptys |-> ptys,
     ws |-> ws1, pending |-> pending1, recv |-> recv1]

Commit1(h) ==
    /\ activePty' = h.activePty
    /\ activeId' = h.activeId
    /\ ptys' = h.ptys
    /\ ws1' = h.ws
    /\ pending1' = h.pending
    /\ recv1' = h.recv
    /\ UNCHANGED <<vars2, vars0>>

\* ws.send(frame) behind its readyState test (part_001:30-34, 93-95)
wsSend1(h, frame) ==
    IF h.ws = "open" THEN [h EXCEPT !.recv = Append(@, frame)] ELSE h

sendControl1(h, msg) == wsSend1(h, msg)

\* IPty.kill(): the process is signalled; on a process that has exited the
\* call throws, and the caller catches it (part_001:53)
kill(h, p) ==
    IF h.ptys[p].exit = Running
    THEN [h EXCEPT !.ptys[p].signals = @ + 1]
    ELSE h

\* Faulty variant: the reference to the killed process is kept
killActiveKeepsReference(h) ==
    IF h.activePty # None THEN kill(h, h.activePty) ELSE h

\* part_001:49-55
killActive(h) ==
    IF h.activePty # None
    THEN kill([h EXCEPT !.activePty = None], h.activePty)
    ELSE h

\* part_001:57-105 after `await isDirectory(cwd)` has resolved; spawnOk is
\* whether pty.spawn returns (TRUE) or throws (FALSE)
startSessionResume(h, cwd, spawnOk) ==
    IF ~isDirectory(cwd)
    THEN sendControl1(h, Frame("error", cwd, 0, <<>>))
    ELSE LET h1 == killActive(h)
             h2 == [h1 EXCEPT !.activeId = @ + 1]
             id == h2.activeId
             proc == Len(h2.ptys) + 1
         IN IF ~spawnOk
            THEN sendControl1(h2, Frame("error", cwd, 1, <<>>))
            ELSE sendControl1(
                   [h2 EXCEPT !.ptys = Append(@, [cwd |-> cwd, id |-> id,
                                                  exit |-> Running,
                                                  signals |-> 0, total |-> 0]),
                              !.activePty = proc],
                   Frame("spawned", cwd, proc, <<>>))

\* Faulty variant: the output of every process of the connection is forwarded
onData1AnyProcess(h, p, data) == wsSend1(h, Raw(data))

\* part_001:91-96, the onData listener of process p
onData1(h, p, data) ==
    IF h.ptys[p].id # h.activeId THEN h ELSE wsSend1(h, Raw(data))

\* part_001:98-102, the onExit listener of process p
onExit1(h, p, exitCode) ==
    IF h.ptys[p].id # h.activeId THEN h
    ELSE [sendControl1(h, Frame("exited", h.ptys[p].cwd, exitCode, <<>>))
            EXCEPT !.activePty = None]

\* part_001:45-47, 108: the transport is accepted, handleConnection runs
Accept1 ==
    /\ ws1 = "new"
    /\ Commit1(sendControl1([One EXCEPT !.ws = "open"], Frame("ready", "", 0, <<>>)))

\* part_001:110-117, 135-142: a select frame {"cwd": cwd} with a non-empty cwd
\* arrives; startSession runs until it awaits isDirectory
RecvSelect1(cwd) ==
    /\ ws1 = "open"
    /\ Commit1([One EXCEPT !.pending[cwd] = @ + 1])

\* part_001:59-105: isDirectory has resolved, startSession runs to its end
StartSessionResume1(cwd, spawnOk) ==
    /\ pending1[cwd] > 0
    /\ Commit1(startSessionResume([One EXCEPT !.pending[cwd] = @ - 1], cwd, spawnOk))

\* process p writes a byte: its data event fires
Data1(p) ==
    /\ ptys[p].exit = Running
    /\ LET h == [One EXCEPT !.ptys[p].total = @ + 1]
       IN Commit1(onData1(h, p, Bytes(p, h.ptys[p].total, h.ptys[p].total)))

\* process p exits, by itself or because it was signalled: its exit event fires
Exit1(p, exitCode) ==
    /\ ptys[p].exit = Running
    /\ Commit1(onExit1([One EXCEPT !.ptys[p].exit = exitCode], p, exitCode))

\* part_001:147-149: the transport closes
Close1 ==
    /\ ws1 = "open"
    /\ Commit1(killActive([One EXCEPT !.ws = "closed"]))

----------------------------------------------------------------------------
(* Specifications.  A run is bounded by the number of handlers it runs.    *)
(* Connections are interchangeable, so they are accepted in the order of   *)
(* their numbers.                                                          *)

InOrder(c) == IF c = 1 THEN TRUE ELSE ws[c - 1] # "new"

Tick == steps < MaxSteps /\ steps' = steps + 1

(* Lifecycle runs: selects of two directories and of a path that is no     *)
(* directory, spawn failures, exits and closes; the processes are silent.  *)
Next ==
    \/ \E c \in Conns : Tick /\ InOrder(c) /\ Accept(c)
    \/ \E c \in Conns, cwd \in Paths : Tick /\ RecvSelect(c, cwd)
    \/ \E c \in Conns, cwd \in Paths : Tick /\ SelectResume(c, cwd, TRUE)
    \/ \E c \in Conns, cwd \in Paths :
          Tick /\ reachesSpawn(World, cwd) /\ SelectResume(c, cwd, FALSE)
    \/ \E s \in DOMAIN sess, exitCode \in ExitCodes : Tick /\ Exit(s, exitCode)
    \/ \E c \in Conns : Tick /\ Close(c)

Spec == Init /\ [][Next]_vars

(* Output runs: one directory whose process writes, connections that       *)
(* attach, detach, re-attach and close while it writes.                    *)
NextOutput ==
    \/ \E c \in Conns : Tick /\ InOrder(c) /\ Accept(c)
    \/ \E c \in Conns : Tick /\ RecvSelect(c, "a")
    \/ \E c \in Conns : Tick /\ SelectResume(c, "a", TRUE)
    \/ \E s \in DOMAIN sess, n \in 1 .. MaxChunk : Tick /\ Publish(s, n)
    \/ \E s \in DOMAIN sess : Tick /\ Exit(s, 0)
    \/ \E c \in Conns : Tick /\ Close(c)

SpecOutput == Init /\ [][NextOutput]_vars

(* Frame runs: one directory; the connections send input, resize and select *)
(* frames, well-formed and not, in every state of their attachment.         *)
InputPayloads ==
    { <<"x">>,
      <<ESC, "[", "I">>,
      <<"x", ESC, "[", "O", "y">>,
      <<ESC, "[", "I", ESC, "[", "O">>,
      <<ESC, "[", "x">>,
      <<ESC, ESC, "[", "I", "[", "I">> }

ResizePayloads ==
    { <<"2", ",", "3">>,
      <<"1", "2", ",", "3", ",", "4">>,
      <<"0", ",", "3">>,
      <<"2", ",", "-", "3">>,
      <<"a", ",", "3">>,
      <<"2", ".", "5", ",", "3">>,
      <<"2", ",", "3", "a">>,
      <<",", "3">>,
      <<"2">>,
      <<>> }

SelectOf(cwd) == <<"{", "cwd", ":", cwd, "}">>

MalformedFrames ==
    { <<>>,
      <<"9">>,
      <<"x", "2", ",", "3">>,
      <<"2">>,
      <<"2", "{">>,
      <<"2", "{", "cwd", ":", "a">>,
      <<"2", "null">>,
      <<"2", "7">>,
      <<"2", "{", "}">>,
      <<"2">> \o SelectOf("") }

\* pty.write has been called fewer than MaxWrites times on the session of c
CanWrite(c) ==
    IF currentSession[c] = None THEN TRUE
    ELSE Len(sess[currentSession[c]].written) < MaxWrites

FrameTick == steps < MaxFrameSteps /\ steps' = steps + 1

NextFrames ==
    \/ \E c \in Conns : FrameTick /\ InOrder(c) /\ Accept(c)
    \/ \E c \in Conns : FrameTick /\ Message(c, <<"2">> \o SelectOf("a"))
    \/ \E c \in Conns : FrameTick /\ SelectResume(c, "a", TRUE)
    \/ \E c \in Conns, payload \in InputPayloads :
          FrameTick /\ CanWrite(c) /\ Message(c, <<"0">> \o payload)
    \/ \E c \in Conns, payload \in ResizePayloads :
          FrameTick /\ Message(c, <<"1">> \o payload)
    \/ \E c \in Conns, msg \in MalformedFrames : FrameTick /\ Message(c, msg)
    \/ \E s \in DOMAIN sess : FrameTick /\ Exit(s, 0)
    \/ \E c \in Conns : FrameTick /\ Close(c)

SpecFrames == Init /\ [][NextFrames]_vars

(* Switch runs: the connections send select frames for two directories, and *)
(* the path validations of the selects in flight complete in any order.     *)
NextSwitch ==
    \/ \E c \in Conns : FrameTick /\ InOrder(c) /\ Accept(c)
    \/ \E c \in Conns, cwd \in Dirs :
          FrameTick /\ Message(c, <<"2">> \o SelectOf(cwd))
    \/ \E c \in Conns, cwd \in Dirs : FrameTick /\ SelectResume(c, cwd, TRUE)
    \/ \E s \in DOMAIN sess : FrameTick /\ Exit(s, 0)
    \/ \E c \in Conns : FrameTick /\ Close(c)

SpecSwitch == Init /\ [][NextSwitch]_vars

(* Relay runs: two directories whose processes both write, connections that *)
(* move between them.                                                       *)
RelayTick == steps < MaxRelaySteps /\ steps' = steps + 1

NextRelay ==
    \/ \E c \in Conns : RelayTick /\ InOrder(c) /\ Accept(c)
    \/ \E c \in Conns, cwd \in Dirs : RelayTick /\ RecvSelect(c, cwd)
    \/ \E c \in Conns, cwd \in Dirs : RelayTick /\ SelectResume(c, cwd, TRUE)
    \/ \E s \in DOMAIN sess : RelayTick /\ Publish(s, 1)
    \/ \E s \in DOMAIN sess : RelayTick /\ Exit(s, 0)
    \/ \E c \in Conns : RelayTick /\ Close(c)

SpecRelay == Init /\ [][NextRelay]_vars

(* Runs of both managers side by side: connections of the persistent       *)
(* manager on one directory, and one connection of the per-connection      *)
(* manager with valid and invalid selects, spawn failures, output, exits.  *)
BothTick == steps < MaxBothSteps /\ steps' = steps + 1

NextBoth ==
    \/ \E c \in Conns : BothTick /\ InOrder(c) /\ Accept(c)
    \/ \E c \in Conns : BothTick /\ RecvSelect(c, "a")
    \/ \E c \in Conns : BothTick /\ SelectResume(c, "a", TRUE)
    \/ \E s \in DOMAIN sess : BothTick /\ Exit(s, 0)
    \/ \E c \in Conns : BothTick /\ Close(c)
    \/ BothTick /\ Accept1
    \/ \E cwd \in {"a", "x"} : BothTick /\ RecvSelect1(cwd)
    \/ \E cwd \in {"a", "x"}, spawnOk \in BOOLEAN :
          BothTick /\ StartSessionResume1(cwd, spawnOk)
    \/ \E p \in DOMAIN ptys : BothTick /\ Data1(p)
    \/ \E p \in DOMAIN ptys : BothTick /\ Exit1(p, 0)
    \/ BothTick /\ Close1

SpecBoth == Init /\ [][NextBoth]_vars

(* Project-list runs: the startup call of addProject, then adds and removes *)
(* of a few paths, alone and overlapping.                                   *)
ProjectTick == steps < MaxProjectSteps /\ steps' = steps + 1

\* Slots are interchangeable, so a call takes the first one that is not in use
FirstIdle(i) == \A k \in 1 .. i - 1 : InProgress(k)

NextProjects ==
    \/ \E i \in Slots, op \in {"add", "del"}, cwd \in ProjectPaths :
          ProjectTick /\ FirstIdle(i) /\ StartRequest(i, op, cwd)
    \/ \E i \in Slots : ProjectTick /\ Load(i)
    \/ \E i \in Slots : ProjectTick /\ Save(i)

SpecProjects == Init /\ [][NextProjects]_vars

----------------------------------------------------------------------------
(* Vocabulary of the properties *)

Range(s) == {s[i] : i \in DOMAIN s}
Last(s) == s[Len(s)]
Count(s, x) == Cardinality({i \in DOMAIN s : s[i] = x})

IsRunning(s) == sess[s].exit = Running

\* the sessions on whose pty connection c has a listener registered
ListensTo(c) ==
    {s \in DOMAIN sess : c \in Range(sess[s].onData) \cup Range(sess[s].onExit)}

\* c has exactly the two listeners of one attach on s
AttachedTo(c, s) ==
    /\ Count(sess[s].onData, c) = 1
    /\ Count(sess[s].onExit, c) = 1

NumPending(c) == pending[c]["a"] + pending[c]["b"] + pending[c]["x"]

Has(c, frame) == \E i \in DOMAIN recv[c] : recv[c][i] = frame
HasBefore(c, f1, f2) ==
    \E i, j \in DOMAIN recv[c] : i < j /\ recv[c][i] = f1 /\ recv[c][j] = f2

Spawned(cwd, pid) == Frame("spawned", cwd, pid, <<>>)
Attached(cwd, pid) == Frame("attached", cwd, pid, <<>>)
Exited(cwd, code) == Frame("exited", cwd, code, <<>>)
InvalidPath(cwd) == Frame("error", cwd, 0, <<>>)
SpawnFailed(cwd) == Frame("error", cwd, 1, <<>>)

\* the step is the continuation of a select(cwd) of connection c
Resumes(c, cwd) == pending'[c][cwd] < pending[c][cwd]
\* the step is the arrival of a select(cwd) frame on connection c
Receives(c, cwd) == pending'[c][cwd] > pending[c][cwd]
\* the step is the exit of the process of session s
Exits(s) == IsRunning(s) /\ sess'[s].exit # Running

----------------------------------------------------------------------------
(* C1: concurrent selects of one key never double-spawn: for every directory
   at most one spawned process is running (so the selects of an unseen key,
   served in any order, spawn exactly one), and every connection whose
   last select has been answered spawned or attached, and whose process
   still runs, is attached to the one session the registry holds for that
   directory. *)
C1_OneSpawnPerKey ==
    /\ \A k \in Dirs :
          Cardinality({s \in DOMAIN sess : sess[s].cwd = k /\ IsRunning(s)}) <= 1
    /\ \A c \in Conns :
          (/\ ws[c] = "open"
           /\ NumPending(c) = 0
           /\ recv[c] # <<>>
           /\ Last(recv[c]).type \in {"spawned", "attached"}
           /\ IsRunning(Last(recv[c]).num))
          => LET f == Last(recv[c])
             IN /\ sessions[f.cwd] = f.num
                /\ currentSession[c] = f.num
                /\ AttachedTo(c, f.num)

\* both connections selected "a" while it had no session: one spawned it,
\* the other was attached to the same process
C1_Witness ==
    /\ recv[1] = <<Frame("ready", "", 0, <<>>), Spawned("a", 1)>>
    /\ recv[2] = <<Frame("ready", "", 0, <<>>), Attached("a", 1)>>
    /\ currentSession = [c \in Conns |-> 1]
    /\ Len(sess) = 1

\* What C2 asks of a state and of a step
ConnectionEvent == ws' # ws \/ nsel' # nsel \/ pending' # pending

C2_Step ==
    /\ ConnectionEvent =>
          \A s \in DOMAIN sess :
             /\ sess'[s].exit = sess[s].exit
             /\ sess'[s].alive = sess[s].alive
             /\ sessions[sess[s].cwd] = s => sessions'[sess[s].cwd] = s
    /\ \A k \in Paths :
          (sessions[k] # None /\ sessions'[k] # sessions[k]) => Exits(sessions[k])

(* C2: no connection event (a frame arriving, a select being served, a
   transport closing) changes the state of a process, the liveness flag of
   a session or the registry entry of an existing session; a session leaves
   the registry only in the step in which its process exits. *)
C2_ConnectionsNeverKill == [][C2_Step]_vars

\* connection 1 spawned "a" and closed; connection 2 then selected "a" and
\* was attached to the same, still running, process
C2_Witness ==
    /\ ws[1] = "closed"
    /\ Has(1, Spawned("a", 1))
    /\ ws[2] = "open"
    /\ Last(recv[2]) = Attached("a", 1)
    /\ currentSession[2] = 1
    /\ IsRunning(1)
    /\ ListensTo(1) = {}

(* C4: the registry holds exactly the live sessions: every entry is a
   session whose alive flag is set, whose process runs and whose cwd is the
   key; every session that is alive is the entry of its cwd.  (A removal
   that deleted a newer session of the same key would leave that session
   alive and unregistered.) *)
C4_RegistryIsLiveSessions ==
    /\ \A k \in Paths :
          sessions[k] # None =>
             /\ sessions[k] \in DOMAIN sess
             /\ sess[sessions[k]].alive
             /\ IsRunning(sessions[k])
             /\ sess[sessions[k]].cwd = k
    /\ \A s \in DOMAIN sess :
          /\ sess[s].alive <=> IsRunning(s)
          /\ sess[s].alive => sessions[sess[s].cwd] = s

\* the first session of "a" has exited and was removed; a newer session is
\* registered under the same key
C4_Witness ==
    /\ Len(sess) = 2
    /\ sess[1].cwd = "a" /\ ~sess[1].alive
    /\ sess[2].cwd = "a" /\ sess[2].alive
    /\ sessions["a"] = 2

\* What C5 asks of a state and of a step
C5_Step ==
    /\ \A s \in DOMAIN sess :
          Exits(s) =>
             /\ sessions'[sess[s].cwd] = None
             /\ \A c \in Conns :
                   IF c \in Range(sess[s].onExit) /\ ws[c] = "open"
                   THEN /\ recv'[c] = Append(recv[c], Exited(sess[s].cwd, sess'[s].exit))
                        /\ currentSession'[c] = None
                        /\ ws'[c] = "open"
                   ELSE recv'[c] = recv[c]
    /\ \A c \in Conns :
          (/\ Len(recv'[c]) > Len(recv[c])
           /\ Last(recv'[c]).type = "exited")
          => \E s \in DOMAIN sess : Exits(s) /\ c \in Range(sess[s].onExit)
    /\ \A c \in Conns, k \in Dirs :
          (Resumes(c, k) /\ sessions[k] = None) =>
             \/ /\ sess' = sess /\ sessions' = sessions
                /\ recv'[c] \in {recv[c], Append(recv[c], SpawnFailed(k))}
             \/ /\ Len(sess') = Len(sess) + 1
                /\ sessions'[k] = Len(sess')
                /\ sess'[Len(sess')].exit = Running
                /\ currentSession'[c] = Len(sess')
                /\ ws[c] = "open" => recv'[c] = Append(recv[c], Spawned(k, Len(sess')))

(* C5: in the step in which a process exits, every connection attached to
   its session whose transport is open receives exactly one frame more, the
   exited message with that exit code and the session's cwd, its session
   reference becomes null and its transport stays open; the registry has no
   entry for the key afterwards; no exited message is sent in any other
   step; and a select of a directory that is served while the registry has
   no live session for it never answers attached: it spawns a new process
   and answers spawned (or reports that pty.spawn threw). *)
C5_ExitNotifiesAndRespawns == [][C5_Step]_vars

\* the process of "a" exited with code 1 while both connections were
\* attached: both got exited(1), and connection 2's next select of "a"
\* spawned process 2
C5_Witness ==
    /\ HasBefore(1, Spawned("a", 1), Exited("a", 1))
    /\ HasBefore(2, Attached("a", 1), Exited("a", 1))
    /\ Last(recv[2]) = Spawned("a", 2)
    /\ ws[1] = "open"
    /\ currentSession[1] = None
    /\ sessions["a"] = 2

\* What C8 asks of a state and of a step
C8_State ==
    \A c \in Conns :
       /\ Cardinality(ListensTo(c)) <= 1
       /\ \A s \in ListensTo(c) : AttachedTo(c, s)
       /\ currentSession[c] # None => ListensTo(c) = {currentSession[c]}

C8_Step ==
    \A c \in Conns :
       (currentSession[c] # None /\ currentSession'[c] \notin {None, currentSession[c]})
       => /\ sess'[currentSession[c]].exit = sess[currentSession[c]].exit
          /\ c \notin Range(sess'[currentSession[c]].onData)
          /\ c \notin Range(sess'[currentSession[c]].onExit)

(* C8: a connection has listeners on the pty of at most one session, and
   then exactly the two of one attach, on the session it refers to, also
   while several of its selects await isDirectory; a step that attaches it
   to another session leaves the previous session's process running. *)
C8_AtMostOneAttachment == []C8_State /\ [][C8_Step]_vars

\* connection 1 sent select(a) and select(b); a was served first, and the
\* attach to b's session removed the listeners from a's running process
C8_Witness ==
    /\ recv[1] = <<Frame("ready", "", 0, <<>>), Spawned("a", 1), Spawned("b", 2)>>
    /\ ListensTo(1) = {2}
    /\ IsRunning(1)
    /\ sess[1].onData = <<OwnListener>>

(* C9: once the transport of a connection has closed, the connection refers
   to no session and has no listener on any pty. *)
C9_ClosedIsDetached ==
    \A c \in Conns :
       ws[c] = "closed" => currentSession[c] = None /\ ListensTo(c) = {}

\* What C10 asks of a state and of a step
C10_Step ==
    \A c \in Conns :
       /\ \A x \in NotDirs :
             /\ Resumes(c, x) =>
                   /\ UNCHANGED <<sessions, sess, ws, currentSession, disposables>>
                   /\ \A d \in Conns \ {c} : recv'[d] = recv[d]
                   /\ recv'[c] = IF ws[c] = "open"
                                 THEN Append(recv[c], InvalidPath(x))
                                 ELSE recv[c]
             /\ Receives(c, x) =>
                   /\ UNCHANGED <<sessions, ws, recv>>
                   /\ Len(sess') = Len(sess)
                   /\ \A s \in DOMAIN sess :
                         /\ sess'[s].exit = sess[s].exit
                         /\ sess'[s].alive = sess[s].alive
                         /\ sess'[s].buffer = sess[s].buffer
                   /\ \A d \in Conns \ {c} :
                         /\ currentSession'[d] = currentSession[d]
                         /\ disposables'[d] = disposables[d]
                         /\ \A s \in DOMAIN sess :
                               /\ Count(sess'[s].onData, d) = Count(sess[s].onData, d)
                               /\ Count(sess'[s].onExit, d) = Count(sess[s].onExit, d)
       /\ \A k \in Dirs :
             (Resumes(c, k) /\ ws[c] = "open"
                /\ \E x \in NotDirs : Has(c, InvalidPath(x)))
             => \/ /\ recv'[c] = Append(recv[c], SpawnFailed(k))
                   /\ sessions[k] = None
                   /\ UNCHANGED <<sessions, sess>>
                \/ /\ sessions'[k] # None
                   /\ currentSession'[c] = sessions'[k]
                   /\ recv'[c] # recv[c]
                   /\ Last(recv'[c]) =
                        IF sessions[k] # None
                        THEN Attached(k, sessions[k])
                        ELSE Spawned(k, sessions'[k])

(* C10: the continuation of a select of a path that is no directory changes
   nothing but the log of the requesting connection, which gets one error
   message if its transport is open; the arrival of the frame changes
   neither the registry nor any process, buffer or liveness flag nor the
   attachment of another connection; and a select of a directory served on
   a connection that has received an error is answered spawned or attached
   and attaches it to the registry's session (or reports that pty.spawn
   threw). *)
C10_InvalidPathChangesNothing == [][C10_Step]_vars

\* connection 2 selected "x" while connection 1 was attached to "a": it got
\* the error, connection 1 got nothing, and its next select, of "a",
\* attached it
C10_Witness ==
    /\ recv[2] = <<Frame("ready", "", 0, <<>>), InvalidPath("x"), Attached("a", 1)>>
    /\ recv[1] = <<Frame("ready", "", 0, <<>>), Spawned("a", 1)>>
    /\ currentSession = [c \in Conns |-> 1]
    /\ Len(sess) = 1

----------------------------------------------------------------------------
(* Properties of the output path, checked under SpecOutput *)

Min(a, b) == IF a < b THEN a ELSE b
Max(a, b) == IF a > b THEN a ELSE b

RECURSIVE Flatten(_)
Flatten(frames) ==
    IF frames = <<>> THEN <<>> ELSE Head(frames).data \o Flatten(Tail(frames))

IsRaw(f) == f.type = "raw"

\* the frames connection c has received since its last attach() began
SinceAttach(c) == SubSeq(recv[c], att[c].mark + 1, Len(recv[c]))

\* the raw bytes among them
RawSinceAttach(c) == Flatten(SelectSeq(SinceAttach(c), IsRaw))

\* the output chunks among them that process s wrote after its byte p
ChunksAfter(c, s, p) ==
    LET later(f) == IsRaw(f) /\ f.data[1] > Byte(s, p)
    IN SelectSeq(SinceAttach(c), later)

(* C3: for a connection attached to a session, with its transport open,
   the raw bytes received since the attach are the replay buffer as it was
   at the attach, which is a suffix of the bytes the process had written
   until then, followed by exactly the bytes the process has written
   since, in order. *)
C3_ReplayThenLive ==
    \A c \in Conns :
       (ws[c] = "open" /\ currentSession[c] # None) =>
          LET s == currentSession[c]
              a == att[c]
          IN /\ a.sid = s
             /\ a.replay = Bytes(s, a.pubAt - Len(a.replay) + 1, a.pubAt)
             /\ RawSinceAttach(c) = a.replay \o Bytes(s, a.pubAt + 1, sess[s].total)

\* a connection on its second select was attached when the buffer was not
\* empty, and the process has written more since
C3_Witness ==
    \E c \in Conns :
       /\ ws[c] = "open"
       /\ nsel[c] >= 2
       /\ currentSession[c] = 1
       /\ att[c].replay # <<>>
       /\ sess[1].total > att[c].pubAt
       /\ Last(recv[c]).type = "raw"

(* C6: two connections attached to the same session, with open transports,
   have received the same sequence of output chunks since the later of
   their attaches, and these chunks are what the process has written since
   then. *)
C6_SameChunksInOrder ==
    \A c, d \in Conns :
       (/\ c # d
        /\ ws[c] = "open" /\ ws[d] = "open"
        /\ currentSession[c] # None
        /\ currentSession[d] = currentSession[c])
       => LET s == currentSession[c]
              p == Max(att[c].pubAt, att[d].pubAt)
          IN /\ ChunksAfter(c, s, p) = ChunksAfter(d, s, p)
             /\ Flatten(ChunksAfter(c, s, p)) = Bytes(s, p + 1, sess[s].total)

\* both connections are attached and have received two chunks since
C6_Witness ==
    /\ ws = [c \in Conns |-> "open"]
    /\ currentSession = [c \in Conns |-> 1]
    /\ Len(ChunksAfter(1, 1, Max(att[1].pubAt, att[2].pubAt))) >= 2
    /\ Len(ChunksAfter(2, 1, Max(att[1].pubAt, att[2].pubAt))) >= 2

\* What C7 asks of a state and of a step
C7_State ==
    \A s \in DOMAIN sess :
       LET b == sess[s].buffer
       IN /\ 2 * Len(b) <= 3 * REPLAY_BUFFER_SIZE
          /\ b = Bytes(s, sess[s].total - Len(b) + 1, sess[s].total)
          /\ Len(b) >= Min(sess[s].total, REPLAY_BUFFER_SIZE)

C7_Step ==
    \A s \in DOMAIN sess :
       (/\ sess'[s].total > sess[s].total
        /\ Len(sess'[s].buffer) < Len(sess[s].buffer) + sess'[s].total - sess[s].total)
       => Len(sess'[s].buffer) = REPLAY_BUFFER_SIZE

(* C7: the replay buffer is never longer than 1.5 times REPLAY_BUFFER_SIZE;
   it is the last Len(buffer) of the bytes the process has written; it
   holds all of them or at least REPLAY_BUFFER_SIZE; and a data event that
   evicts bytes leaves exactly REPLAY_BUFFER_SIZE of them. *)
C7_BufferBounded == []C7_State /\ [][C7_Step]_vars

\* bytes have been evicted, and the buffer has grown past the ceiling again
C7_Witness ==
    /\ Len(sess) = 1
    /\ sess[1].total > Len(sess[1].buffer)
    /\ Len(sess[1].buffer) > REPLAY_BUFFER_SIZE

----------------------------------------------------------------------------
(* Properties of the answers to a select, checked under Spec *)

IsAnswer(f) == f.type \in {"spawned", "attached", "error"}

\* the frames of one type that connection c has received
FramesOf(c, type) == {i \in DOMAIN recv[c] : recv[c][i].type = type}
Answers(c) == {i \in DOMAIN recv[c] : IsAnswer(recv[c][i])}

(* C11: a successful select yields exactly one control message, attached if
   the session was already live in the registry and spawned if the select
   spawned the process; consequently the number of spawned messages ever
   sent equals the number of processes spawned, and the message carries the
   cwd and pid of the session the connection has just been attached to. *)
C11_SpawnedMessagePerProcess ==
    /\ Cardinality({<<c, i>> \in Conns \X (1 .. MaxSteps + 1) :
                       i \in FramesOf(c, "spawned")}) = Len(sess)
    /\ \A c \in Conns : \A i \in FramesOf(c, "spawned") \cup FramesOf(c, "attached") :
          /\ recv[c][i].num \in DOMAIN sess
          /\ sess[recv[c][i].num].cwd = recv[c][i].cwd

(* C20: every select of a connection whose transport stays open is answered
   by exactly one of spawned, attached or error, and after an error the
   connection is Idle. *)
C20_AnsweredOnceIdleAfterError ==
    \A c \in Conns :
       ws[c] = "open"
       => /\ Cardinality(Answers(c)) + NumPending(c) = nsel[c]
          /\ (Last(recv[c]).type = "error" => currentSession[c] = None)

----------------------------------------------------------------------------
(* Re-attachment, checked under SpecOutput *)

\* What C18 asks of a step: the arrival of the select only removes the
\* listeners of the connection, and its continuation, finding the session the
\* connection was last attached to still live, attaches to it again.
C18_Step ==
    \A c \in Conns : \A k \in Dirs : \A s \in DOMAIN sess :
       /\ (Receives(c, k) /\ currentSession[c] = s /\ sess[s].cwd = k)
          => /\ sessions' = sessions
             /\ Len(sess') = Len(sess)
             /\ sess'[s] = [sess[s] EXCEPT !.onData = RemoveFirst(@, c),
                                           !.onExit = RemoveFirst(@, c)]
             /\ recv' = recv
       /\ (Resumes(c, k) /\ att[c].sid = s /\ sessions[k] = s /\ sess[s].alive)
          => /\ sessions' = sessions
             /\ Len(sess') = Len(sess)
             /\ sess'[s] = [sess[s] EXCEPT
                             !.onData = Append(RemoveFirst(@, c), c),
                             !.onExit = Append(RemoveFirst(@, c), c)]
             /\ currentSession'[c] = s
             /\ ws[c] = "open"
                => recv'[c] = recv[c]
                              \o (IF sess[s].buffer # <<>>
                                  THEN <<Raw(sess[s].buffer)>> ELSE <<>>)
                              \o <<Attached(k, s)>>

(* C18: a select for the cwd of the session the connection is attached to,
   while its process is alive, is a re-attach: no process is spawned, the
   session's process, buffer and registry entry are unchanged, and the
   connection receives the replay buffer and an attached message and is
   attached to the same session again. *)
C18_ReselectReattaches == [][C18_Step]_vars

\* Connection 1 spawned the session, saw it write, selected its cwd again and
\* got the buffer and attached for the same pid
C18_Witness ==
    /\ currentSession[1] = 1
    /\ IsRunning(1)
    /\ Len(sess) = 1
    /\ nsel[1] = 2
    /\ Len(recv[1]) = 5
    /\ recv[1][2] = Spawned("a", 1)
    /\ recv[1][3] = Raw(<<Byte(1, 1)>>)
    /\ recv[1][4] = Raw(<<Byte(1, 1)>>)
    /\ recv[1][5] = Attached("a", 1)

----------------------------------------------------------------------------
(* Properties of the message handler, checked under SpecFrames.  They are  *)
(* stated of every reachable state and every frame that can arrive in it:  *)
(* onMessage(World, c, msg) is the state the handler would leave.          *)

Ready == Frame("ready", "", 0, <<>>)

\* the field is a decimal numeral of a positive integer
IsPositiveInteger(field) ==
    /\ field # <<>>
    /\ \A i \in DOMAIN field : IsDigit(field[i])
    /\ DecimalValue(field) > 0

\* the string contains one of the sequences the input filter strips
HasFocusReport(str) ==
    \E i \in 1 .. Len(str) - 2 :
       str[i] = ESC /\ str[i + 1] = "[" /\ str[i + 2] \in {"I", "O"}

AttachedLive(c) ==
    currentSession[c] # None /\ sess[currentSession[c]].alive

(* C12: a resize frame is applied to the process only when the connection is
   attached to a live session and the cols and rows fields of the payload
   are both positive integers; in every other case (non-numeric or
   non-integer field, zero or negative value, missing field, no session)
   the frame changes no state. *)
C12_ResizeNeedsPositiveIntegers ==
    \A c \in Conns : \A payload \in ResizePayloads :
       ws[c] = "open"
       => LET after == onMessage(World, c, <<"1">> \o payload)
              cols == At(split(payload), 0)
              rows == At(split(payload), 1)
              s == currentSession[c]
          IN IF AttachedLive(c) /\ IsPositiveInteger(cols) /\ IsPositiveInteger(rows)
             THEN after = [World EXCEPT !.sess[s].cols = DecimalValue(cols),
                                        !.sess[s].rows = DecimalValue(rows)]
             ELSE after = World

(* C13: a malformed frame (empty, unknown tag, select whose JSON does not
   parse or has no cwd or an empty cwd) is dropped with no effect: attachment,
   registry, sessions and the frames sent are unchanged and the connection
   stays open. *)
C13_MalformedFrameDropped ==
    \A c \in Conns : \A msg \in MalformedFrames :
       ws[c] = "open" => onMessage(World, c, msg) = World

\* A malformed frame has just been handled for a connection that is attached
C13_Witness ==
    /\ last.msg \in MalformedFrames
    /\ last.c = 1
    /\ ws[1] = "open"
    /\ AttachedLive(1)
    /\ recv[1] = <<Ready, Spawned("a", 1)>>

(* C14: for an input frame received while attached to a live session the
   bytes written to the process are the payload with the stripped sequences
   removed, so they contain no occurrence of a stripped sequence; nothing is
   written when nothing remains; without a live session attached nothing is
   written to any process. *)
C14_WrittenHasNoFocusReport ==
    \A c \in Conns : \A payload \in InputPayloads :
       ws[c] = "open"
       => LET after == onMessage(World, c, <<"0">> \o payload)
              s == currentSession[c]
          IN IF AttachedLive(c)
             THEN /\ \E str \in {<<>>, <<stripFocus(payload)>>} :
                        after = [World EXCEPT !.sess[s].written = @ \o str]
                  /\ \A i \in DOMAIN after.sess[s].written :
                        /\ after.sess[s].written[i] # <<>>
                        /\ ~HasFocusReport(after.sess[s].written[i])
             ELSE after = World

(* C19: on accept a connection is Idle and ready is the first frame sent to
   it, exactly once; before the connection has sent a select frame nothing
   else is sent to it, and input and resize frames received while no session
   is attached affect no session. *)
C19_ReadyFirstIdleUntilSelect ==
    \A c \in Conns :
       /\ ws[c] = "new" => recv[c] = <<>>
       /\ ws[c] # "new" => /\ recv[c] # <<>>
                           /\ recv[c][1] = Ready
                           /\ Count(recv[c], Ready) = 1
       /\ nsel[c] = 0 => /\ Len(recv[c]) <= 1
                         /\ currentSession[c] = None
                         /\ disposables[c] = <<>>
                         /\ ListensTo(c) = {}
       /\ (ws[c] = "open" /\ currentSession[c] = None)
          => /\ \A payload \in InputPayloads :
                   onMessage(World, c, <<"0">> \o payload) = World
             /\ \A payload \in ResizePayloads :
                   onMessage(World, c, <<"1">> \o payload) = World

\* Connection 2 has sent no select; input that the filter lets through has
\* just been handled for it while the session of connection 1 runs untouched
C19_Witness ==
    /\ last.c = 2
    /\ last.msg = <<"0", "x">>
    /\ nsel[2] = 0
    /\ recv[2] = <<Ready>>
    /\ Len(sess) = 1
    /\ IsRunning(1)
    /\ currentSession[1] = 1
    /\ sess[1].written = <<>>

----------------------------------------------------------------------------
(* Properties of the relay between sessions, checked under SpecRelay *)

\* the frames the step sends to connection c
Sent(c) == SubSeq(recv'[c], Len(recv[c]) + 1, Len(recv'[c]))
\* every byte connection c has received
BytesOf(c) == UNION {Range(recv[c][i].data) : i \in DOMAIN recv[c]}
\* the process a byte was written by
PidOf(byte) == byte \div 100
\* the step is a data event of session s
Publishes(s) == sess'[s].total > sess[s].total
Published(s) == Bytes(s, sess[s].total + 1, sess'[s].total)

\* What C15 as stated asks of a step: raw bytes reach a connection only
\* as the chunk its session publishes in that step; a byte that arrives in
\* any other way is one the connection has received before
C15_LiveOnlyStep ==
    \A c \in Conns : \A i \in DOMAIN Sent(c) :
       Sent(c)[i].type = "raw"
       => \/ \E s \in DOMAIN sess :
                /\ currentSession[c] = s
                /\ Publishes(s)
                /\ Sent(c) = <<Raw(Published(s))>>
          \/ Range(Sent(c)[i].data) \subseteq BytesOf(c)

\* C15 as stated: a connection receives raw output bytes only from the session
\* it is attached to at the moment the bytes are published; after it detaches
\* from a session no byte that session publishes later reaches it.
C15_OnlyBytesPublishedWhileAttached == [][C15_LiveOnlyStep]_vars

\* What C15, with the replay accounted for, asks of a step and of a state
C15_Step ==
    \A c \in Conns : \A i \in DOMAIN Sent(c) :
       Sent(c)[i].type = "raw"
       => \/ \E s \in DOMAIN sess :
                /\ currentSession[c] = s
                /\ currentSession'[c] = s
                /\ Publishes(s)
                /\ Sent(c) = <<Raw(Published(s))>>
          \/ \E s \in DOMAIN sess : \E k \in Dirs :
                /\ Resumes(c, k)
                /\ currentSession'[c] = s
                /\ sess[s].cwd = k
                /\ Sent(c) = <<Raw(sess[s].buffer), Attached(k, s)>>

C15_State ==
    \A c \in Conns : \A i \in DOMAIN recv[c] :
       (/\ i + 1 \in DOMAIN recv[c]
        /\ recv[c][i].type = "raw"
        /\ recv[c][i + 1].type = "raw"
        /\ PidOf(recv[c][i].data[1]) # PidOf(recv[c][i + 1].data[1]))
       => /\ i + 2 \in DOMAIN recv[c]
          /\ recv[c][i + 2].type = "attached"
          /\ recv[c][i + 2].num = PidOf(recv[c][i + 1].data[1])

(* C15, with the replay: a connection receives raw bytes only of the session it is
   attached to: live, the chunk that session publishes while the connection
   is attached, and, in the step that attaches it to a live session, that
   session's replay buffer followed by attached (the buffer may hold bytes
   published while the connection was detached).  A detached connection
   receives no byte, and the raw bytes between two control messages change
   session only where a replay precedes its attached message. *)
C15_BytesOnlyOfAttachedSession == []C15_State /\ [][C15_Step]_vars

\* Connection 1 saw session 1 write, moved to session 2, session 1 wrote
\* again, and connection 1 received only what session 2 wrote after that
C15_Witness ==
    /\ Len(sess) = 2
    /\ sess[1].total = 2
    /\ sess[2].total = 1
    /\ currentSession[1] = 2
    /\ recv[1] = <<Ready, Spawned("a", 1), Raw(<<Byte(1, 1)>>),
                   Spawned("b", 2), Raw(<<Byte(2, 1)>>)>>

----------------------------------------------------------------------------
(* Properties of detach and kill, checked under SpecBoth *)

\* connection c holds nothing of any session
Detached(c) == currentSession[c] = None /\ disposables[c] = <<>>

\* what a session is apart from the listeners on its pty
Core(session) ==
    [cwd |-> session.cwd, buffer |-> session.buffer, alive |-> session.alive,
     exit |-> session.exit, written |-> session.written,
     cols |-> session.cols, rows |-> session.rows]

(* C16: detach and kill are idempotent: detach on a connection that is
   already detached, and kill on a connection whose pty is already killed or
   dead, leave the connection, the registry and every session (every
   process) exactly as they were.  A connection that is Idle because its
   session exited is detached too: a detach then only drops its stale
   listeners from the dead pty. *)
C16_DetachAndKillIdempotent ==
    /\ \A c \in Conns :
          /\ detach(detach(World, c), c) = detach(World, c)
          /\ Detached(c) => detach(World, c) = World
          /\ currentSession[c] = None
             => LET after == detach(World, c)
                IN /\ after.sessions = sessions
                   /\ after.recv = recv
                   /\ after.ws = ws
                   /\ after.pending = pending
                   /\ after.currentSession = currentSession
                   /\ \A s \in DOMAIN sess :
                         /\ Core(after.sess[s]) = Core(sess[s])
                         /\ IsRunning(s) => after.sess[s] = sess[s]
    /\ killActive(killActive(One)) = killActive(One)
    /\ activePty = None => killActive(One) = One
    /\ \A p \in DOMAIN ptys :
          /\ ptys[p].signals <= 1
          /\ (ptys[p].signals > 0 \/ ptys[p].exit # Running) => activePty # p

\* Both have happened twice over: connection 1 of the persistent manager
\* detached by a select and then closed before it was attached again, and the
\* per-connection manager killed its process for a new select whose spawn
\* failed, and then closed
C16_Witness ==
    /\ ws[1] = "closed"
    /\ nsel[1] = 2
    /\ NumPending(1) = 1
    /\ Detached(1)
    /\ Len(sess) = 1
    /\ IsRunning(1)
    /\ ws1 = "closed"
    /\ Len(ptys) = 1
    /\ ptys[1].signals = 1
    /\ activePty = None
    /\ Len(recv1) = 3
    /\ recv1[3] = SpawnFailed("a")

\* the processes of the per-connection manager that run and were never signalled
AliveUnkilled == {p \in DOMAIN ptys : ptys[p].exit = Running /\ ptys[p].signals = 0}

(* C17: in the per-connection manager there is one pty per connection and it
   is killed when the client disconnects or switches projects: at most one
   process started by the connection is alive and not yet killed, and once
   the connection has closed none is, also when a select was still awaiting
   the validation of its path at the moment of the close. *)
C17_OnePtyKilledOnClose ==
    /\ Cardinality(AliveUnkilled) <= 1
    /\ ws1 = "closed" => AliveUnkilled = {}

----------------------------------------------------------------------------
(* Properties of overlapping selects, checked under SpecSwitch *)

(* C21: when a connection has sent select(A) and then select(B), both for
   directories, and both have completed, the connection is attached to the
   session of B, the last one selected, whatever the order in which the two
   validations completed, and the last spawned or attached message it has
   received names B. *)
C21_LastSelectWins ==
    \A c \in Conns : \A k \in Dirs :
       (/\ last.c = c
        /\ last.msg = <<"2">> \o SelectOf(k)
        /\ ws[c] = "open"
        /\ NumPending(c) = 0
        /\ \A s \in DOMAIN sess : IsRunning(s))
       => /\ currentSession[c] # None
          /\ sess[currentSession[c]].cwd = k
          /\ Last(recv[c]).type \in {"spawned", "attached"}
          /\ Last(recv[c]).cwd = k

----------------------------------------------------------------------------
(* Properties of the per-connection manager, checked under SpecBoth *)

\* process p is superseded: it is not the process of the current session id
Superseded(p) == ptys[p].id # activeId

\* the step is a data event, or the exit event, of process p
Writes1(p) == ptys'[p].total > ptys[p].total
Exits1(p) == ptys[p].exit = Running /\ ptys'[p].exit # Running

\* What C22 asks of a state and of a step
C22_State ==
    /\ activePty # None => /\ ~Superseded(activePty)
                           /\ activePty = Len(ptys)
    /\ \A p \in DOMAIN ptys : ~Superseded(p) => p = Len(ptys)
    /\ \A i \in DOMAIN recv1 :
          recv1[i].type = "raw"
          => \E j \in 1 .. i - 1 :
                /\ recv1[j] = Spawned(ptys[PidOf(recv1[i].data[1])].cwd,
                                      PidOf(recv1[i].data[1]))
                /\ \A k \in j + 1 .. i - 1 : recv1[k].type # "spawned"

C22_Step ==
    \A p \in DOMAIN ptys :
       /\ (Writes1(p) /\ Superseded(p)) => recv1' = recv1
       /\ (Writes1(p) /\ ~Superseded(p) /\ ws1 = "open")
          => recv1' = Append(recv1, Raw(<<Byte(p, ptys'[p].total)>>))
       /\ (Exits1(p) /\ Superseded(p))
          => /\ recv1' = recv1
             /\ activePty' = activePty
       /\ (Exits1(p) /\ ~Superseded(p))
          => /\ activePty' = None
             /\ ws1 = "open"
                => recv1' = Append(recv1, Exited(ptys[p].cwd, ptys'[p].exit))

(* C22: in the per-connection manager only the most recently started pty of
   a connection is observable to the client: output and the exited message
   are forwarded only for the pty whose id is the current activeId, so after
   a switch nothing written by a superseded pty and no exit of it reaches the
   client, and the exit of a superseded pty never clears the reference to
   the current pty. *)
C22_OnlyCurrentPtyObservable == []C22_State /\ [][C22_Step]_vars

\* After the switch to a second process the first one wrote and exited; the
\* client has seen neither, and the second is still the active one
C22_Witness ==
    /\ Len(ptys) = 2
    /\ ptys[1].total = 1
    /\ ptys[1].exit # Running
    /\ ptys[2].exit = Running
    /\ activePty = 2
    /\ activeId = 2
    /\ ws1 = "open"
    /\ recv1 = <<Ready, Spawned("a", 1), Spawned("a", 2)>>

----------------------------------------------------------------------------
(* Properties of the recent-projects list, checked under SpecProjects *)

IsDuplicateFree(list) ==
    \A i, j \in DOMAIN list : list[i] = list[j] => i = j

\* the place of x in a duplicate-free list
Place(list, x) == CHOOSE i \in DOMAIN list : list[i] = x

\* the entries that the lists old and new share are in the same order in both
SameOrder(old, new) ==
    \A x, y \in Range(old) \cap Range(new) :
       Place(old, x) < Place(old, y) <=> Place(new, x) < Place(new, y)

\* the step completes the call in slot i
Completes(i) == reqs[i].phase = "save" /\ reqs'[i].phase = "done"

\* What C23 asks of a state and of a step; a step is the completion of a call
\* whose copy of the list is what the file still holds
C23_State ==
    /\ IsDuplicateFree(loadProjects(file))
    /\ Len(loadProjects(file)) <= KeepAtMost

C23_Step ==
    \A i \in Slots :
       (Completes(i) /\ reqs[i].projects = loadProjects(file))
       => LET old == loadProjects(file)
              new == loadProjects(file')
              path == reqs[i].cwd
              others == Range(old) \ {path}
          IN IF reqs[i].op = "add"
             THEN /\ new # <<>>
                  /\ new[1] = path
                  /\ Count(new, path) = 1
                  /\ Len(new) = Min(Cardinality(others) + 1, KeepAtMost)
                  /\ Range(new) \ {path} \subseteq others
                  /\ SameOrder(old, Tail(new))
                  /\ \A x \in others \ Range(new) : \A y \in Range(new) \ {path} :
                        Place(old, y) < Place(old, x)
             ELSE /\ Range(new) = others
                  /\ Len(new) = Cardinality(others)
                  /\ SameOrder(old, new)

(* C23: after an add(path) completes, path is the first entry and occurs
   once, the other entries keep their relative order, and the list has at
   most the maximum number of entries, the oldest (last) ones evicted; after
   a remove(path) completes the list does not contain path and the other
   entries are unchanged; the list is always duplicate-free and no longer
   than the maximum. *)
C23_AddMovesToFrontRemoveDeletes == []C23_State /\ [][C23_Step]_vars

\* An add on a full list has completed: the new path is first, the two newest
\* of the old entries follow in their order, the oldest is gone
C23_Witness ==
    \E i \in Slots :
       /\ reqs[i].phase = "done"
       /\ reqs[i].op = "add"
       /\ reqs[i].cwd = "s"
       /\ reqs[i].projects = <<"r", "q", "p">>
       /\ loadProjects(file) = <<"s", "r", "q">>

\* the stored list shows the effect of the completed call in slot i
Reflects(i) ==
    IF reqs[i].op = "add"
    THEN reqs[i].cwd \in Range(loadProjects(file))
    ELSE reqs[i].cwd \notin Range(loadProjects(file))

(* C24: when two calls that modify the list (two adds of different paths, or
   an add and a remove of different paths) overlap in time, the stored list
   after both have completed reflects both: each added path is present and
   each removed path is absent.  (With two calls and room for more than two
   entries the limit on the length evicts neither path.) *)
C24_OverlappingCallsBothReflected ==
    \A i, j \in Slots :
       (/\ i # j
        /\ reqs[i].phase = "done"
        /\ reqs[j].phase = "done"
        /\ j \in reqs[i].overlap
        /\ reqs[i].cwd # reqs[j].cwd
        /\ "add" \in {reqs[i].op, reqs[j].op}
        /\ \A k \in Slots \ {i, j} : reqs[k].phase = "free")
       => Reflects(i) /\ Reflects(j)

====
